---- MODULE Spec2Model ----
(***************************************************************************)
(* native_hub: the Action/Event bridge between the egui redraw loop and    *)
(* the tokio backend (src/main.rs, src/backend.rs, src/ui/app.rs), the     *)
(* login flow (src/modules/auth.rs) and the shared context.                *)
(*                                                                         *)
(* A work unit is one tokio task spawned by run_backend.  Its pc names the *)
(* external call it is suspended in (gh CLI, keyring, REST request, sleep, *)
(* the token lock); one step of a unit completes that call and runs the    *)
(* code that follows it up to the next external call, event sends          *)
(* included.                                                               *)
(***************************************************************************)
EXTENDS Integers, Sequences, FiniteSets, TLC

\* ---------------------------------------------------------------- bounds
MaxClicks == 2       \* user clicks in Spec and SpecClose
MaxPolls == 2        \* token poll requests of one Login work unit
MaxBurst == 103      \* user clicks in SpecChan
MaxNodes == 2        \* nodes of a directory listing
ServerInterval == 5  \* DeviceCodeResponse.interval as sent by the server
MaxLongPolls == 4    \* token poll requests of one Login work unit in SpecPoll
ExpiresIn == 10      \* DeviceCodeResponse.expires_in as sent by the server
MaxLoginClicks == 3  \* user clicks in SpecRelogin
MaxIssues == 2       \* entries of one page of issues

\* ------------------------------------------------------ program constants
ChannelCapacity == 100   \* tokio::sync::mpsc::channel(100)
PollBuffer == 1          \* Duration::from_secs(interval + 1)
SlowDownStep == 5        \* interval += Duration::from_secs(5)

VARIABLES
    action_q,     \* buffer of the inbound channel (UI -> backend)
    n_sent,       \* number of try_send calls made by the UI so far
    dropped,      \* ids of the Actions whose try_send returned Err(Full)
    tx_closed,    \* every Sender<AppAction> has been dropped
    event_q,      \* buffer of the outbound channel (backend -> UI)
    rx_dropped,   \* the Receiver<AppEvent> has been dropped
    dispatcher,   \* position of run_backend: "boot", "recv" or "stopped"
    units,        \* the spawned work units, in spawn order
    ctx_token,    \* AppContext.auth_token
    keyring,      \* keyring entry ("native_hub", "github_oauth")
    client_id,    \* GITHUB_CLIENT_ID is set in the environment
    ui_state,     \* NativeHubApp.state
    auth_error,   \* NativeHubApp.auth_error is Some(_)
    loading,      \* RepoBrowser.loading
    log_lines,    \* number of lines in the LogViewer
    ui_seen,      \* per source, the Events process_events has received
    clicks,       \* number of user clicks so far
    cancelled     \* << i, n >>: Login unit i was polling, with n token requests
                  \* sent, when a Cancel was dispatched

vars == << action_q, n_sent, dropped, tx_closed, event_q, rx_dropped,
           dispatcher, units, ctx_token, keyring, client_id, ui_state,
           auth_error, loading, log_lines, ui_seen, clicks, cancelled >>

\* ------------------------------------------------------------ data types
NoToken == << "none", 0 >>
CliToken == << "gh", 0 >>
StoredToken == << "stored", 0 >>
DevToken(i) == << "dev", i >>

RepoKinds == { "FetchDir", "FetchIssues", "FetchIssueComments", "CreateComment",
               "UpdateIssueState", "FetchPullRequests", "MergePullRequest",
               "ClosePullRequest" }
RestKinds == RepoKinds \cup { "ReadFile", "SearchRepos" }
ActionKinds == RestKinds \cup { "Login", "Cancel", "FetchRepos", "SelectRepo" }

\* repository identifiers, as sequences of characters
GoodName == << "o", "/", "r" >>
RepoNames == { GoodName, << "r" >>, << "o", "/", "r", "/", "x" >> }
NoName == << >>

\* full_name.split('/').collect::<Vec<&str>>().len()
RECURSIVE PartsCount(_)
PartsCount(s) ==
    IF s = << >> THEN 1
    ELSE (IF Head(s) = "/" THEN 1 ELSE 0) + PartsCount(Tail(s))

\* nodes of a directory listing
NodeNames == { "README.md", "readme", "src" }
Nodes == [ name : NodeNames, url : BOOLEAN ]
Listings == UNION { [ 1..n -> Nodes ] : n \in 0..MaxNodes }

\* file.name.to_lowercase().starts_with("readme")
IsReadmeName(n) == n \in { "README.md", "readme" }

\* index of the node the README loop of SelectRepo reads, 0 when none
RECURSIVE FindReadmeFrom(_, _)
FindReadmeFrom(files, k) ==
    IF k > Len(files) THEN 0
    ELSE IF IsReadmeName(files[k].name) /\ files[k].url THEN k
    ELSE FindReadmeFrom(files, k + 1)
RECURSIVE FindNamedFrom(_, _)
FindNamedFrom(files, k) ==
    IF k > Len(files) THEN 0
    ELSE IF IsReadmeName(files[k].name) THEN k
    ELSE FindNamedFrom(files, k + 1)
FindReadmeNamed(files) == FindNamedFrom(files, 1)
FindReadme(files) == FindReadmeFrom(files, 1)

\* the pull_request member of an entry of the issues response
Markers == { "absent", "null", "object" }
IssuePages == UNION { [ 1..n -> Markers ] : n \in 0..MaxIssues }

\* Issue.pull_request: Option<serde_json::Value> with #[serde(default)]
ParseMarker(m) == IF m = "object" THEN "Some" ELSE "None"
ParseIssues(page) ==
    [ n \in 1..Len(page) |-> [ number |-> n, pull_request |-> ParseMarker(page[n]) ] ]

\* issues.into_iter().filter(|i| i.pull_request.is_none()).collect()
FilterIssuesNone(issues) == issues
FilterIssues(issues) == SelectSeq(issues, LAMBDA x : x.pull_request = "None")

\* the ApiClient method behind each single-request arm
OpOf(kind) ==
    CASE kind = "FetchDir" -> "fetch_file_tree"
      [] kind = "ReadFile" -> "fetch_file_content"
      [] kind = "SearchRepos" -> "search_repos"
      [] kind = "FetchIssues" -> "fetch_issues"
      [] kind = "FetchIssueComments" -> "fetch_issue_comments"
      [] kind = "CreateComment" -> "create_comment"
      [] kind = "UpdateIssueState" -> "update_issue_state"
      [] kind = "FetchPullRequests" -> "fetch_pull_requests"
      [] kind = "MergePullRequest" -> "merge_pull_request"
      [] kind = "ClosePullRequest" -> "close_pull_request"

\* how a request can fail: a response whose status is not 2xx, or a transport
\* or parsing failure
Failures == { "http", "other" }

\* methods whose `!response.status().is_success()` branch reads response.text()
BodyOps == { "fetch_file_tree", "search_repos", "create_comment", "merge_pull_request" }

\* what the anyhow::bail! message of that branch is formatted from
HttpError(op) == [ op |-> op, status |-> TRUE, body |-> op \in BodyOps ]

\* the unit after a request of method op failed in the way f
Failed(u, op, f) ==
    [ u EXCEPT !.errs = @ + 1,
               !.http_errs = IF f = "http" THEN Append(@, HttpError(op)) ELSE @ ]

TerminalFailure == "Error"
SuccessKinds == { "AuthSuccess", "RepoList", "FileTree", "FileContent",
                  "RepoInfoLoaded", "ReadmeLoaded", "SearchResults", "IssueList",
                  "IssueComments", "CommentCreated", "IssueUpdated",
                  "PullRequestList", "PullRequestMerged", "PullRequestClosed" }
EventKinds == SuccessKinds \cup { "Log", "DeviceCode", TerminalFailure }

Event(i, k, t) == [ src |-> i, kind |-> k, tok |-> t ]

\* a freshly spawned task.  http_errs: the errors the engine made of non-2xx
\* responses.  issues, listed: the result of fetch_issues and the
\* payload of the IssueList Event.  tree, files: the outcome of SelectRepo's root
\* listing and the nodes it returned.  reads: the indices of the nodes whose
\* content the unit requested, in order.  cli: the outcome of a fetch unit's CLI token
\* command.  got: 0, or n when the unit's token was the n-th
\* token obtained by a Login.  resps: the bodies of the token responses so far;
\* sleeps: the duration of every sleep of the poll loop so far.  kr_after: what the keyring held right after the
\* unit's set_password step; ctx_wrote: what the unit assigned to the shared
\* token.  lost: a send of the unit returned Err because the Event receiver
\* was gone.  born records what had already happened when the
\* unit was spawned: an earlier unit still running, an earlier unit having
\* sent an Error, a send of an earlier unit having failed.
NewUnit(a) ==
    [ aid |-> a.id, kind |-> a.kind, name |-> a.name, pc |-> "spawned",
      tok |-> NoToken, out |-> << >>, rest |-> 0, errs |-> 0, kr_reads |-> 0,
      path |-> "none", interval |-> 0, dev_reqs |-> 0, polls |-> 0, lost |-> FALSE,
      kr_after |-> NoToken, ctx_wrote |-> NoToken, resps |-> << >>, sleeps |-> << >>,
      got |-> 0, cli |-> "none", tree |-> "none", files |-> << >>, reads |-> << >>,
      issues |-> << >>, listed |-> << >>, http_errs |-> << >>,
      born |-> [ running |-> \E i \in 1..Len(units) : units[i].pc # "done",
                 failed |-> \E i \in 1..Len(units) :
                               \E k \in 1..Len(units[i].out) : units[i].out[k] = "Error",
                 lost |-> \E i \in 1..Len(units) : units[i].lost ] ]

\* rank of the next token a Login obtains
GotNext == 1 + Cardinality({ j \in 1..Len(units) : units[j].got > 0 })

\* ------------------------------------------------------------- channels
\* tokio Sender::try_send on the bounded channel: the new buffer
TrySendFull(q, a) == Append(q, a)
TrySend(q, a) == IF Len(q) < ChannelCapacity THEN Append(q, a) ELSE q

\* std::sync::mpsc Sender::send of a run of Events: the new buffer
ChanPushFront(q, evs) == evs \o q
ChanPushLossy(q, evs) == IF Len(q) + Len(evs) <= 4 THEN q \o evs ELSE q
ChanPush(q, evs) == q \o evs

\* the UI sends Action (kind, name) with try_send and ignores the result
Enqueue(kind, name) ==
    LET a == [ id |-> n_sent + 1, kind |-> kind, name |-> name ] IN
    /\ n_sent' = n_sent + 1
    /\ action_q' = TrySend(action_q, a)
    /\ dropped' = IF Len(action_q) < ChannelCapacity THEN dropped
                  ELSE dropped \cup { a.id }

\* work unit i becomes u and sends the Events of kinds ks, in order
Emit(i, u, ks) ==
    /\ units' = [ units EXCEPT ![i] =
                     [ u EXCEPT !.out = @ \o ks,
                                !.lost = @ \/ (rx_dropped /\ ks # << >>) ] ]
    /\ event_q' = IF rx_dropped THEN event_q
                  ELSE ChanPush(event_q, [ k \in 1..Len(ks) |-> Event(i, ks[k], u.tok) ])

\* ----------------------------------------------------------------- Init
\* make_app_creator and NativeHubApp::new: both channels empty, the backend
\* thread started, the UI on the Login screen.  The keyring may hold the
\* token of an earlier session and the environment may or may not define
\* GITHUB_CLIENT_ID.
Init ==
    /\ action_q = << >>
    /\ n_sent = 0
    /\ dropped = { }
    /\ tx_closed = FALSE
    /\ event_q = << >>
    /\ rx_dropped = FALSE
    /\ dispatcher = "boot"
    /\ units = << >>
    /\ ctx_token = NoToken
    /\ keyring \in { NoToken, StoredToken }
    /\ client_id \in BOOLEAN
    /\ ui_state = "Login"
    /\ auth_error = FALSE
    /\ loading = FALSE
    /\ log_lines = 0
    /\ ui_seen = [ j \in { 0 } |-> << >> ]
    /\ clicks = 0
    /\ cancelled = { }

\* ------------------------------------------------------------ run_backend
\* the two Log lines run_backend sends before it enters its loop
BootEvents == << "Log", "Log" >>

\* Events sent so far by source i (0 is run_backend itself)
Out(i) == IF i = 0 THEN (IF dispatcher = "boot" THEN << >> ELSE BootEvents)
          ELSE units[i].out

Boot ==
    /\ dispatcher = "boot"
    /\ dispatcher' = "recv"
    /\ event_q' = IF rx_dropped THEN event_q
                  ELSE ChanPush(event_q, [ k \in 1..Len(BootEvents) |->
                                           Event(0, BootEvents[k], NoToken) ])
    /\ UNCHANGED << action_q, n_sent, dropped, tx_closed, rx_dropped, units,
                    ctx_token, keyring, client_id, ui_state, auth_error,
                    loading, log_lines, ui_seen, clicks, cancelled >>

\* action_rx.recv().await returns Some(action)
RecvReadyAwaiting ==
    /\ dispatcher = "recv"
    /\ action_q # << >>
    /\ \A i \in 1..Len(units) : units[i].pc = "done"
RecvReady ==
    /\ dispatcher = "recv"
    /\ action_q # << >>

\* action_rx.recv().await returns None
RecvClosedOnEmpty ==
    /\ dispatcher = "recv"
    /\ action_q = << >>
RecvClosed ==
    /\ dispatcher = "recv"
    /\ tx_closed
    /\ action_q = << >>

Login(i) == units[i].kind = "Login"
Polling(i) == units[i].kind = "Login" /\ units[i].pc \in { "sleep", "poll" }

\* AppAction::Cancel => { }
CancelArmAbort ==
    /\ units' = [ i \in 1..Len(units) |->
                  IF Polling(i) THEN [ units[i] EXCEPT !.pc = "done" ] ELSE units[i] ]
    /\ UNCHANGED << event_q, ctx_token, keyring, ui_seen >>
CancelArm ==
    UNCHANGED << units, event_q, ctx_token, keyring, ui_seen >>

\* every other arm: tokio::spawn(async move { ... })
SpawnArm(a) ==
    /\ units' = Append(units, NewUnit(a))
    /\ ui_seen' = [ j \in 0..(Len(units) + 1) |->
                    IF j <= Len(units) THEN ui_seen[j] ELSE << >> ]
    /\ UNCHANGED << event_q, ctx_token, keyring >>

Dispatch ==
    /\ RecvReady
    /\ LET a == Head(action_q) IN
       /\ action_q' = Tail(action_q)
       /\ IF a.kind = "Cancel"
          THEN /\ CancelArm
               /\ cancelled' = cancelled \cup
                      { << i, units[i].polls >> : i \in { j \in 1..Len(units) : Polling(j) } }
          ELSE /\ SpawnArm(a)
               /\ cancelled' = cancelled
    /\ UNCHANGED << n_sent, dropped, tx_closed, rx_dropped, dispatcher, client_id,
                    ui_state, auth_error, loading, log_lines, clicks >>

LoopExit ==
    /\ RecvClosed
    /\ dispatcher' = "stopped"
    /\ UNCHANGED << action_q, n_sent, dropped, tx_closed, event_q, rx_dropped,
                    units, ctx_token, keyring, client_id, ui_state, auth_error,
                    loading, log_lines, ui_seen, clicks, cancelled >>

\* -------------------------------------------------------------------- UI
BackendVars == << event_q, rx_dropped, dispatcher, units, ctx_token, keyring,
                  client_id, ui_seen, cancelled >>

\* NativeHubApp::initiate_login
InitiateLogin(b) ==
    /\ ~tx_closed
    /\ clicks < b
    /\ ui_state = "Login"
    /\ ui_state' = "RequestingCode"
    /\ Enqueue("Login", NoName)
    /\ clicks' = clicks + 1
    /\ UNCHANGED << tx_closed, auth_error, loading, log_lines >>
    /\ UNCHANGED BackendVars

\* the ABORT SEQUENCE button of render_device_auth
AbortSequence(b) ==
    /\ ~tx_closed
    /\ clicks < b
    /\ ui_state = "DeviceAuth"
    /\ Enqueue("Cancel", NoName)
    /\ ui_state' = "Login"
    /\ clicks' = clicks + 1
    /\ UNCHANGED << tx_closed, auth_error, loading, log_lines >>
    /\ UNCHANGED BackendVars

\* the refresh button of RepoBrowser::render_header
RefreshClick(b) ==
    /\ ~tx_closed
    /\ clicks < b
    /\ ui_state = "Main"
    /\ ~loading
    /\ loading' = TRUE
    /\ Enqueue("FetchRepos", NoName)
    /\ clicks' = clicks + 1
    /\ UNCHANGED << tx_closed, ui_state, auth_error, log_lines >>
    /\ UNCHANGED BackendVars

\* a click on a repository card of RepoBrowser::render_repo_card; the cards
\* are those of the last RepoList received
CardClick(b) ==
    /\ ~tx_closed
    /\ clicks < b
    /\ ui_state = "Main"
    /\ \E j \in DOMAIN ui_seen : \E n \in 1..Len(ui_seen[j]) : ui_seen[j][n] = "RepoList"
    /\ Enqueue("SelectRepo", GoodName)
    /\ clicks' = clicks + 1
    /\ UNCHANGED << tx_closed, ui_state, auth_error, loading, log_lines >>
    /\ UNCHANGED BackendVars

\* the try_send of the views of src/ui that the window does not show yet
\* (search, file browser, issues, pull requests): any Action, any identifier
ViewSend(kind, name, b) ==
    /\ ~tx_closed
    /\ clicks < b
    /\ ui_state = "Main"
    /\ Enqueue(kind, name)
    /\ clicks' = clicks + 1
    /\ UNCHANGED << tx_closed, ui_state, auth_error, loading, log_lines >>
    /\ UNCHANGED BackendVars

ViewInputs ==
    ((RepoKinds \cup { "SelectRepo" }) \X RepoNames)
        \cup ({ "ReadFile", "SearchRepos" } \X { NoName })

\* one iteration of the loop of NativeHubApp::process_events
ProcessEvent ==
    /\ ~tx_closed
    /\ ~rx_dropped
    /\ event_q # << >>
    /\ LET e == Head(event_q) IN
       /\ event_q' = Tail(event_q)
       /\ ui_seen' = [ ui_seen EXCEPT ![e.src] = Append(@, e.kind) ]
       /\ CASE e.kind = "Log" ->
                 /\ log_lines' = log_lines + 1
                 /\ UNCHANGED << ui_state, auth_error, loading, action_q, n_sent, dropped >>
            [] e.kind = "DeviceCode" ->
                 /\ ui_state' = "DeviceAuth"
                 /\ UNCHANGED << auth_error, loading, log_lines, action_q, n_sent, dropped >>
            [] e.kind = "AuthSuccess" ->
                 /\ ui_state' = "Main"
                 /\ auth_error' = FALSE
                 /\ log_lines' = log_lines + 1
                 /\ loading' = TRUE
                 /\ Enqueue("FetchRepos", NoName)
            [] e.kind = "Error" ->
                 /\ auth_error' = TRUE
                 /\ log_lines' = log_lines + 1
                 /\ ui_state' = IF ui_state = "RequestingCode" THEN "Login" ELSE ui_state
                 /\ loading' = FALSE
                 /\ UNCHANGED << action_q, n_sent, dropped >>
            [] e.kind = "RepoList" ->
                 /\ log_lines' = log_lines + 1
                 /\ loading' = FALSE
                 /\ UNCHANGED << ui_state, auth_error, action_q, n_sent, dropped >>
            [] OTHER ->
                 UNCHANGED << ui_state, auth_error, loading, log_lines, action_q,
                              n_sent, dropped >>
    /\ UNCHANGED << tx_closed, rx_dropped, dispatcher, units, ctx_token, keyring,
                    client_id, clicks, cancelled >>

\* the window closes: NativeHubApp is dropped, its Senders first ...
DropSenders ==
    /\ ~tx_closed
    /\ tx_closed' = TRUE
    /\ UNCHANGED << action_q, n_sent, dropped, event_q, rx_dropped, dispatcher,
                    units, ctx_token, keyring, client_id, ui_state, auth_error,
                    loading, log_lines, ui_seen, clicks, cancelled >>

\* ... and its Receiver after them, which discards the buffered Events
DropReceiver ==
    /\ tx_closed
    /\ ~rx_dropped
    /\ rx_dropped' = TRUE
    /\ event_q' = << >>
    /\ UNCHANGED << action_q, n_sent, dropped, tx_closed, dispatcher, units,
                    ctx_token, keyring, client_id, ui_state, auth_error, loading,
                    log_lines, ui_seen, clicks, cancelled >>

\* ------------------------------------------------------------ work units
\* what a unit leaves alone unless stated otherwise
UnitFrame ==
    UNCHANGED << action_q, n_sent, dropped, tx_closed, rx_dropped, dispatcher,
                 client_id, ui_state, auth_error, loading, log_lines, ui_seen,
                 clicks, cancelled >>

\* arms whose `None =>` branch of get_github_token sends an Error
TokenErrKinds == { "SelectRepo", "SearchRepos", "FetchIssues", "FetchPullRequests" }
\* arms whose `parts.len() != 2` branch sends an Error
NameErrKinds == { "SelectRepo", "FetchIssues", "FetchPullRequests" }
\* arms that parse a repository identifier
NamedKinds == RepoKinds \cup { "SelectRepo" }
\* arms whose Ok branch sends a Log line before the result
OkLogKinds == RestKinds \ { "FetchDir", "FetchIssueComments" }

\* the result Event of the Ok branch of each single-request arm
ResultKind(kind) ==
    CASE kind = "FetchDir" -> "FileTree"
      [] kind = "ReadFile" -> "FileContent"
      [] kind = "SearchRepos" -> "SearchResults"
      [] kind = "FetchIssues" -> "IssueList"
      [] kind = "FetchIssueComments" -> "IssueComments"
      [] kind = "CreateComment" -> "CommentCreated"
      [] kind = "UpdateIssueState" -> "IssueUpdated"
      [] kind = "FetchPullRequests" -> "PullRequestList"
      [] kind = "MergePullRequest" -> "PullRequestMerged"
      [] kind = "ClosePullRequest" -> "PullRequestClosed"

\* the first statement of every spawned task: its opening Log line
StartEvents(kind) == << "Log" >>

\* Events of the `None =>` branch after get_github_token
NoTokenEvents(kind) == IF kind \in TokenErrKinds THEN << "Error" >> ELSE << >>
\* Events of the `parts.len() != 2` branch
BadNameEventsNone(kind) == << >>
BadNameEvents(kind) == IF kind \in NameErrKinds THEN << "Error" >> ELSE << >>
\* Events of the Ok and Err branches of a single-request arm
RestOkEvents(kind) ==
    IF kind \in OkLogKinds THEN << "Log", ResultKind(kind) >> ELSE << ResultKind(kind) >>
RestErrEvents(kind) == << "Error" >>
\* SelectRepo: `if let Ok(..)` around the README read and the repo-info fetch
ReadmeErrEvents == << >>
InfoErrEventsLoud == << "Error" >>
InfoErrEvents == << >>

StartInOrder(i) ==
    /\ units[i].pc = "spawned"
    /\ \A k \in 1..(i - 1) : units[k].pc = "done"
    /\ Emit(i, [ units[i] EXCEPT !.pc = IF units[i].kind = "FetchRepos"
                                        THEN "gh_repos" ELSE "gh_token" ],
            StartEvents(units[i].kind))
    /\ UNCHANGED << ctx_token, keyring >>
    /\ UnitFrame
Start(i) ==
    /\ units[i].pc = "spawned"
    /\ Emit(i, [ units[i] EXCEPT !.pc = IF units[i].kind = "FetchRepos"
                                        THEN "gh_repos" ELSE "gh_token" ],
            StartEvents(units[i].kind))
    /\ UNCHANGED << ctx_token, keyring >>
    /\ UnitFrame

\* FetchRepos: GhCliEngine::fetch_repos returns
GhReposDone(i) ==
    /\ units[i].pc = "gh_repos"
    /\ \E ok \in BOOLEAN :
         IF ok THEN Emit(i, [ units[i] EXCEPT !.pc = "done" ], << "Log", "RepoList" >>)
         ELSE Emit(i, [ units[i] EXCEPT !.pc = "done", !.errs = @ + 1 ], << "Error" >>)
    /\ UNCHANGED << ctx_token, keyring >>
    /\ UnitFrame

\* a fetch unit holds token t: ApiClient::new, the identifier check, and the
\* first REST request
WithToken(i, w, t) ==
    LET u == [ w EXCEPT !.tok = t ] IN
    IF u.kind \in NamedKinds /\ PartsCount(u.name) # 2
    THEN Emit(i, [ u EXCEPT !.pc = "done" ], BadNameEvents(u.kind))
    ELSE Emit(i, [ u EXCEPT !.pc = IF u.kind = "SelectRepo" THEN "tree" ELSE "rest",
                            !.rest = @ + 1 ], << >>)

\* get_github_token of a fetch unit: auth::get_token_from_gh_cli returns
FetchCliDoneProbing(i) ==
    /\ units[i].pc = "gh_token"
    /\ units[i].kind # "Login"
    /\ \E ok \in BOOLEAN :
         IF ok THEN WithToken(i, [ units[i] EXCEPT !.cli = "ok", !.kr_reads = @ + 1 ],
                              CliToken)
         ELSE Emit(i, [ units[i] EXCEPT !.pc = "kr_get", !.cli = "err" ], << >>)
    /\ UNCHANGED << ctx_token, keyring >>
    /\ UnitFrame
FetchCliDone(i) ==
    /\ units[i].pc = "gh_token"
    /\ units[i].kind # "Login"
    /\ \E ok \in BOOLEAN :
         IF ok THEN WithToken(i, [ units[i] EXCEPT !.cli = "ok" ], CliToken)
         ELSE Emit(i, [ units[i] EXCEPT !.pc = "kr_get", !.cli = "err" ], << >>)
    /\ UNCHANGED << ctx_token, keyring >>
    /\ UnitFrame

\* get_github_token of a fetch unit: the keyring lookup returns
FetchKeyringDoneCaching(i) ==
    /\ units[i].pc = "kr_get"
    /\ \E ok \in BOOLEAN :
         LET u == [ units[i] EXCEPT !.kr_reads = @ + 1 ] IN
         IF ok /\ keyring # NoToken
         THEN WithToken(i, u, keyring) /\ ctx_token' = keyring
         ELSE Emit(i, [ u EXCEPT !.pc = "done" ], NoTokenEvents(u.kind))
              /\ ctx_token' = ctx_token
    /\ UNCHANGED keyring
    /\ UnitFrame
FetchKeyringDoneClearing(i) ==
    /\ units[i].pc = "kr_get"
    /\ \E ok \in BOOLEAN :
         LET u == [ units[i] EXCEPT !.kr_reads = @ + 1 ] IN
         IF ok /\ keyring # NoToken
         THEN WithToken(i, u, keyring) /\ ctx_token' = ctx_token
         ELSE Emit(i, [ u EXCEPT !.pc = "done" ], NoTokenEvents(u.kind))
              /\ ctx_token' = NoToken
    /\ UNCHANGED keyring
    /\ UnitFrame
FetchKeyringDone(i) ==
    /\ units[i].pc = "kr_get"
    /\ \E ok \in BOOLEAN :
         LET u == [ units[i] EXCEPT !.kr_reads = @ + 1 ] IN
         IF ok /\ keyring # NoToken
         THEN WithToken(i, u, keyring)
         ELSE Emit(i, [ u EXCEPT !.pc = "done" ], NoTokenEvents(u.kind))
    /\ UNCHANGED << ctx_token, keyring >>
    /\ UnitFrame

\* the one REST request of a single-request arm returns
RestDone(i) ==
    /\ units[i].pc = "rest"
    /\ \E ok \in BOOLEAN :
         IF ok
         THEN IF units[i].kind = "FetchIssues"
              THEN \E page \in IssuePages :
                      LET issues == ParseIssues(page) IN
                      Emit(i, [ units[i] EXCEPT !.pc = "done", !.issues = issues,
                                                !.listed = FilterIssues(issues) ],
                           RestOkEvents(units[i].kind))
              ELSE Emit(i, [ units[i] EXCEPT !.pc = "done" ], RestOkEvents(units[i].kind))
         ELSE \E f \in Failures :
                 Emit(i, Failed([ units[i] EXCEPT !.pc = "done" ], OpOf(units[i].kind), f),
                      RestErrEvents(units[i].kind))
    /\ UNCHANGED << ctx_token, keyring >>
    /\ UnitFrame

\* SelectRepo: fetch_file_tree(owner, repo, "") returns
TreeDoneEager(i) ==
    /\ units[i].pc = "tree"
    /\ \/ \E files \in Listings :
            LET r == FindReadme(files) IN
            IF r # 0
            THEN Emit(i, [ units[i] EXCEPT !.pc = "readme", !.rest = @ + 1,
                                           !.tree = "ok", !.files = files,
                                           !.reads = Append(@, r) ],
                      << "Log", "Log" >>)
            ELSE Emit(i, [ units[i] EXCEPT !.pc = "info", !.rest = @ + 1,
                                           !.tree = "ok", !.files = files ],
                      << "Log", "FileTree" >>)
       \/ \E f \in Failures :
             Emit(i, Failed([ units[i] EXCEPT !.pc = "info", !.rest = @ + 1,
                                              !.tree = "err" ], "fetch_file_tree", f),
                  << "Error" >>)
    /\ UNCHANGED << ctx_token, keyring >>
    /\ UnitFrame
TreeDone(i) ==
    /\ units[i].pc = "tree"
    /\ \/ \E files \in Listings :
            LET r == FindReadme(files) IN
            IF r # 0
            THEN Emit(i, [ units[i] EXCEPT !.pc = "readme", !.rest = @ + 1,
                                           !.tree = "ok", !.files = files,
                                           !.reads = Append(@, r) ],
                      << "Log", "FileTree", "Log" >>)
            ELSE Emit(i, [ units[i] EXCEPT !.pc = "info", !.rest = @ + 1,
                                           !.tree = "ok", !.files = files ],
                      << "Log", "FileTree" >>)
       \/ \E f \in Failures :
             Emit(i, Failed([ units[i] EXCEPT !.pc = "info", !.rest = @ + 1,
                                              !.tree = "err" ], "fetch_file_tree", f),
                  << "Error" >>)
    /\ UNCHANGED << ctx_token, keyring >>
    /\ UnitFrame

\* SelectRepo: fetch_file_content(url) of the README returns
ReadmeDone(i) ==
    /\ units[i].pc = "readme"
    /\ \E ok \in BOOLEAN :
         IF ok THEN Emit(i, [ units[i] EXCEPT !.pc = "info", !.rest = @ + 1 ],
                         << "ReadmeLoaded" >>)
         ELSE \E f \in Failures :
                 Emit(i, Failed([ units[i] EXCEPT !.pc = "info", !.rest = @ + 1 ],
                             "fetch_file_content", f),
                      ReadmeErrEvents)
    /\ UNCHANGED << ctx_token, keyring >>
    /\ UnitFrame

\* SelectRepo: fetch_repo_info(owner, repo) returns
InfoDone(i) ==
    /\ units[i].pc = "info"
    /\ \E ok \in BOOLEAN :
         IF ok THEN Emit(i, [ units[i] EXCEPT !.pc = "done" ], << "Log", "RepoInfoLoaded" >>)
         ELSE \E f \in Failures :
                 Emit(i, Failed([ units[i] EXCEPT !.pc = "done" ], "fetch_repo_info", f),
                      InfoErrEvents)
    /\ UNCHANGED << ctx_token, keyring >>
    /\ UnitFrame

\* ----------------------------------------------------------- handle_login
PollResponses == { "success", "authorization_pending", "slow_down",
                   "expired_token", "access_denied", "other_code", "transport" }

\* handle_login: auth::get_token_from_gh_cli returns.  On Err the unit goes
\* on to request_device_code, which fails before any request when
\* GITHUB_CLIENT_ID is not set.
LoginCliDoneNoId(i) ==
    /\ units[i].pc = "gh_token"
    /\ units[i].kind = "Login"
    /\ \E ok \in BOOLEAN :
         IF ok
         THEN Emit(i, [ units[i] EXCEPT !.pc = "kr_set", !.tok = CliToken, !.path = "cli",
                                        !.got = GotNext ],
                   << "Log" >>)
         ELSE Emit(i, [ units[i] EXCEPT !.pc = "dev_code", !.dev_reqs = @ + 1 ],
                   << "Log", "Log", "Log" >>)
    /\ UNCHANGED << ctx_token, keyring >>
    /\ UnitFrame
LoginCliDone(i) ==
    /\ units[i].pc = "gh_token"
    /\ units[i].kind = "Login"
    /\ \E ok \in BOOLEAN :
         IF ok
         THEN Emit(i, [ units[i] EXCEPT !.pc = "kr_set", !.tok = CliToken, !.path = "cli",
                                        !.got = GotNext ],
                   << "Log" >>)
         ELSE IF client_id
              THEN Emit(i, [ units[i] EXCEPT !.pc = "dev_code", !.dev_reqs = @ + 1 ],
                        << "Log", "Log", "Log" >>)
              ELSE Emit(i, [ units[i] EXCEPT !.pc = "done" ],
                        << "Log", "Log", "Log", "Error" >>)
    /\ UNCHANGED << ctx_token, keyring >>
    /\ UnitFrame

\* auth::request_device_code returns; on Ok poll_access_token starts and
\* sleeps for interval + 1 seconds
DeviceCodeDoneBlind(i) ==
    /\ units[i].pc = "dev_code"
    /\ \E ok \in BOOLEAN :
         IF ok
         THEN Emit(i, [ units[i] EXCEPT !.pc = "sleep",
                                        !.interval = ServerInterval + PollBuffer ],
                   << "Log", "DeviceCode", "Log" >>)
         ELSE Emit(i, [ units[i] EXCEPT !.pc = "sleep" ], << "Error" >>)
    /\ UNCHANGED << ctx_token, keyring >>
    /\ UnitFrame
DeviceCodeDone(i) ==
    /\ units[i].pc = "dev_code"
    /\ \E ok \in BOOLEAN :
         IF ok
         THEN Emit(i, [ units[i] EXCEPT !.pc = "sleep",
                                        !.interval = ServerInterval + PollBuffer ],
                   << "Log", "DeviceCode", "Log" >>)
         ELSE Emit(i, [ units[i] EXCEPT !.pc = "done" ], << "Error" >>)
    /\ UNCHANGED << ctx_token, keyring >>
    /\ UnitFrame

\* seconds slept so far in the poll loop
RECURSIVE SumSeq(_)
SumSeq(q) == IF q = << >> THEN 0 ELSE Head(q) + SumSeq(Tail(q))
Elapsed(u) == SumSeq(u.sleeps)

\* the head of the poll loop is `loop {`: it has no condition
LoopUntilExpiry(u) == Elapsed(u) <= ExpiresIn
LoopHead(u) == TRUE

\* tokio::time::sleep(interval) returns and the token request is sent; b caps
\* the number of token requests
SleepStep(i, b) ==
    /\ units[i].pc = "sleep"
    /\ units[i].polls < b
    /\ LoopHead(units[i])
    /\ Emit(i, [ units[i] EXCEPT !.pc = "poll", !.polls = @ + 1,
                                 !.sleeps = Append(@, units[i].interval) ], << >>)
    /\ UNCHANGED << ctx_token, keyring >>
    /\ UnitFrame

SleepDone(i) == SleepStep(i, MaxPolls)

\* the error codes on which the loop goes round again
WaitCodesWide == { "authorization_pending", "slow_down", "other_code" }
WaitCodes == { "authorization_pending", "slow_down" }

\* the interval after response r
NextIntervalFlat(iv, r) == iv
NextInterval(iv, r) == IF r = "slow_down" THEN iv + SlowDownStep ELSE iv

\* Events sent when the loop goes round again
PollWaitEventsLoud == << "Error" >>
PollWaitEvents == << >>

\* the token request returns and its body is matched
PollDone(i) ==
    /\ units[i].pc = "poll"
    /\ \E r \in PollResponses :
         LET u == [ units[i] EXCEPT !.resps = Append(@, r) ] IN
         CASE r = "success" ->
                Emit(i, [ u EXCEPT !.pc = "kr_set", !.tok = DevToken(i), !.path = "dev",
                                   !.got = GotNext ],
                     << "Log" >>)
           [] r \in WaitCodes ->
                Emit(i, [ u EXCEPT !.pc = "sleep", !.interval = NextInterval(@, r) ],
                     PollWaitEvents)
           [] OTHER ->
                Emit(i, [ u EXCEPT !.pc = "done" ], << "Error", "Log" >>)
    /\ UNCHANGED << ctx_token, keyring >>
    /\ UnitFrame

\* keyring::Entry::new and set_password return
KeyringSetDone(i) ==
    /\ units[i].pc = "kr_set"
    /\ \E entry_ok \in BOOLEAN, set_ok \in BOOLEAN :
         /\ keyring' = IF entry_ok /\ set_ok THEN units[i].tok ELSE keyring
         /\ Emit(i, [ units[i] EXCEPT !.pc = "ctx_write",
                                       !.kr_after = IF entry_ok /\ set_ok
                                                    THEN units[i].tok ELSE keyring ],
                 IF entry_ok /\ units[i].path = "dev" THEN << "Log" >> ELSE << >>)
    /\ UNCHANGED ctx_token
    /\ UnitFrame

\* *ctx.auth_token.write().await = Some(token.clone())
TokenWriteSkipped(i) ==
    /\ units[i].pc = "ctx_write"
    /\ ctx_token' = ctx_token
    /\ Emit(i, [ units[i] EXCEPT !.pc = "auth_send" ], << >>)
    /\ UNCHANGED keyring
    /\ UnitFrame
TokenWrite(i) ==
    /\ units[i].pc = "ctx_write"
    /\ ctx_token' = units[i].tok
    /\ Emit(i, [ units[i] EXCEPT !.pc = "auth_send", !.ctx_wrote = units[i].tok ], << >>)
    /\ UNCHANGED keyring
    /\ UnitFrame

\* event_tx.send(AppEvent::AuthSuccess(token))
AuthSend(i) ==
    /\ units[i].pc = "auth_send"
    /\ Emit(i, [ units[i] EXCEPT !.pc = "done" ], << "AuthSuccess" >>)
    /\ UNCHANGED << ctx_token, keyring >>
    /\ UnitFrame

\* ------------------------------------------------------- specifications
UnitIds == 1..Len(units)

\* the backend and the window while the window is open
Next ==
    \/ Boot
    \/ Dispatch
    \/ InitiateLogin(MaxClicks)
    \/ AbortSequence(MaxClicks)
    \/ RefreshClick(MaxClicks)
    \/ CardClick(MaxClicks)
    \/ \E p \in ViewInputs : ViewSend(p[1], p[2], MaxClicks)
    \/ ProcessEvent
    \/ \E i \in UnitIds : Start(i)
    \/ \E i \in UnitIds : GhReposDone(i)
    \/ \E i \in UnitIds : FetchCliDone(i)
    \/ \E i \in UnitIds : FetchKeyringDone(i)
    \/ \E i \in UnitIds : RestDone(i)
    \/ \E i \in UnitIds : TreeDone(i)
    \/ \E i \in UnitIds : ReadmeDone(i)
    \/ \E i \in UnitIds : InfoDone(i)
    \/ \E i \in UnitIds : LoginCliDone(i)
    \/ \E i \in UnitIds : DeviceCodeDone(i)
    \/ \E i \in UnitIds : SleepDone(i)
    \/ \E i \in UnitIds : PollDone(i)
    \/ \E i \in UnitIds : KeyringSetDone(i)
    \/ \E i \in UnitIds : TokenWrite(i)
    \/ \E i \in UnitIds : AuthSend(i)

Spec == Init /\ [][Next]_vars

\* the window may close at any time; the single-request arms and Login stand
\* for the work units
NextClose ==
    \/ Boot
    \/ Dispatch
    \/ InitiateLogin(MaxClicks)
    \/ AbortSequence(MaxClicks)
    \/ RefreshClick(MaxClicks)
    \/ \E p \in ViewInputs : p[1] # "SelectRepo" /\ ViewSend(p[1], p[2], MaxClicks)
    \/ ProcessEvent
    \/ \E i \in UnitIds : Start(i)
    \/ \E i \in UnitIds : GhReposDone(i)
    \/ \E i \in UnitIds : FetchCliDone(i)
    \/ \E i \in UnitIds : FetchKeyringDone(i)
    \/ \E i \in UnitIds : RestDone(i)
    \/ \E i \in UnitIds : LoginCliDone(i)
    \/ \E i \in UnitIds : DeviceCodeDone(i)
    \/ \E i \in UnitIds : SleepDone(i)
    \/ \E i \in UnitIds : PollDone(i)
    \/ \E i \in UnitIds : KeyringSetDone(i)
    \/ \E i \in UnitIds : TokenWrite(i)
    \/ \E i \in UnitIds : AuthSend(i)
    \/ DropSenders
    \/ DropReceiver
    \/ LoopExit

SpecClose == Init /\ [][NextClose]_vars

\* a burst of clicks on repository cards after a login through the gh CLI,
\* on a machine with GITHUB_CLIENT_ID set and an empty keyring, while tokio
\* does not poll the tasks spawned for the clicks
InitChan == Init /\ client_id /\ keyring = NoToken
EarlyKinds == { "Login", "FetchRepos" }
NextChan ==
    \/ Boot
    \/ Dispatch
    \/ InitiateLogin(MaxBurst)
    \/ CardClick(MaxBurst)
    \/ ProcessEvent
    \/ \E i \in UnitIds : units[i].kind \in EarlyKinds /\ Start(i)
    \/ \E i \in UnitIds : GhReposDone(i)
    \/ \E i \in UnitIds : LoginCliDone(i)
    \/ \E i \in UnitIds : KeyringSetDone(i)
    \/ \E i \in UnitIds : TokenWrite(i)
    \/ \E i \in UnitIds : AuthSend(i)

SpecChan == InitChan /\ [][NextChan]_vars

\* the login flow alone, with a longer poll loop
NextPoll ==
    \/ Boot
    \/ Dispatch
    \/ InitiateLogin(MaxClicks)
    \/ ProcessEvent
    \/ \E i \in UnitIds : Start(i)
    \/ \E i \in UnitIds : LoginCliDone(i)
    \/ \E i \in UnitIds : DeviceCodeDone(i)
    \/ \E i \in UnitIds : SleepStep(i, MaxLongPolls)
    \/ \E i \in UnitIds : PollDone(i)
    \/ \E i \in UnitIds : KeyringSetDone(i)
    \/ \E i \in UnitIds : TokenWrite(i)
    \/ \E i \in UnitIds : AuthSend(i)

SpecPoll == Init /\ [][NextPoll]_vars

\* the login screen alone: logins, aborts and new logins
NextRelogin ==
    \/ Boot
    \/ Dispatch
    \/ InitiateLogin(MaxLoginClicks)
    \/ AbortSequence(MaxLoginClicks)
    \/ ProcessEvent
    \/ \E i \in UnitIds : Login(i) /\ Start(i)
    \/ \E i \in UnitIds : LoginCliDone(i)
    \/ \E i \in UnitIds : DeviceCodeDone(i)
    \/ \E i \in UnitIds : SleepDone(i)
    \/ \E i \in UnitIds : PollDone(i)
    \/ \E i \in UnitIds : KeyringSetDone(i)
    \/ \E i \in UnitIds : TokenWrite(i)
    \/ \E i \in UnitIds : AuthSend(i)

\* a client id is configured, so that the device flow can be entered
InitRelogin == Init /\ client_id /\ keyring = NoToken

SpecRelogin == InitRelogin /\ [][NextRelogin]_vars

\* the burst of clicks, ended by a click on the refresh button of the
\* repository browser when the inbound channel is full
NextLoad ==
    \/ Boot
    \/ Dispatch
    \/ InitiateLogin(MaxBurst)
    \/ CardClick(MaxBurst)
    \/ (Len(action_q) = ChannelCapacity /\ RefreshClick(MaxBurst))
    \/ ProcessEvent
    \/ \E i \in UnitIds : units[i].kind \in EarlyKinds /\ Start(i)
    \/ \E i \in UnitIds : GhReposDone(i)
    \/ \E i \in UnitIds : LoginCliDone(i)
    \/ \E i \in UnitIds : KeyringSetDone(i)
    \/ \E i \in UnitIds : TokenWrite(i)
    \/ \E i \in UnitIds : AuthSend(i)

SpecLoad == InitChan /\ [][NextLoad]_vars

TypeOK ==
    /\ dispatcher \in { "boot", "recv", "stopped" }
    /\ ui_state \in { "Login", "RequestingCode", "DeviceAuth", "Main" }
    /\ \A i \in UnitIds : units[i].kind \in ActionKinds \ { "Cancel" }

\* ================================================================ claims
Count(k, seq) == Cardinality({ n \in 1..Len(seq) : seq[n] = k })
Has(k, seq) == \E n \in 1..Len(seq) : seq[n] = k
HasTerminal(seq) == \E n \in 1..Len(seq) : seq[n] \in SuccessKinds \cup { "Error" }
IsPrefix(a, b) == Len(a) <= Len(b) /\ \A n \in 1..Len(a) : a[n] = b[n]
Done(i) == units[i].pc = "done"

\* C1: whenever run_backend is at recv() and the inbound channel holds an
\* Action, the dispatch step can be taken, whatever the work units spawned
\* earlier are doing: the loop never waits for a work unit.
C1_DispatchNeverWaits ==
    (dispatcher = "recv" /\ action_q # << >>) => ENABLED Dispatch

\* a unit was spawned, and has started, while an earlier one was still running
C1_Witness ==
    \E i \in UnitIds, j \in UnitIds :
        /\ i < j
        /\ units[i].pc \notin { "spawned", "done" }
        /\ units[j].born.running
        /\ units[j].pc # "spawned"

\* C2: the Events the UI has received from one source are a prefix of the
\* Events that source has sent, in sending order, and the first Event received
\* from a work unit is its opening Log line (so it precedes the unit's result
\* or Error).
C2_UnitOrderKept ==
    \A i \in DOMAIN ui_seen :
        /\ IsPrefix(ui_seen[i], Out(i))
        /\ (i >= 1 /\ ui_seen[i] # << >>) => ui_seen[i][1] = "Log"

\* two units that ran concurrently, all Events of both received, each ending
\* in a result or an Error
C2_Witness ==
    \E i \in UnitIds, j \in UnitIds :
        /\ i < j
        /\ units[j].born.running
        /\ Done(i) /\ Done(j)
        /\ ui_seen[i] = units[i].out /\ HasTerminal(ui_seen[i]) /\ Len(ui_seen[i]) >= 2
        /\ ui_seen[j] = units[j].out /\ HasTerminal(ui_seen[j]) /\ Len(ui_seen[j]) >= 2

\* C3 (as claimed): every work unit whose external calls have all completed
\* has sent a terminal Event, an Error or a success-shaped result.
C3_TerminalEventSent ==
    \A i \in UnitIds : Done(i) => HasTerminal(units[i].out)

\* C4 (as claimed): a finished work unit that got an error from an engine
\* call has sent an Error.
C4_EngineErrorSurfaced ==
    \A i \in UnitIds : (Done(i) /\ units[i].errs > 0) => Has("Error", units[i].out)

\* C5 (as claimed): a finished REST-backed work unit that found no token
\* (gh CLI and keyring both failed) has sent an Error and no REST request.
C5_NoTokenFails ==
    \A i \in UnitIds :
        (units[i].kind \in RestKinds \cup { "SelectRepo" } /\ Done(i)
            /\ units[i].tok = NoToken)
        => (Has("Error", units[i].out) /\ units[i].rest = 0)

\* C6: no work unit sends more than one Error.
C6_AtMostOneError ==
    \A i \in UnitIds : Count("Error", units[i].out) <= 1

\* a SelectRepo whose listing and repo-info fetch both failed sent one Error
C6_Witness ==
    \E i \in UnitIds :
        /\ units[i].kind = "SelectRepo"
        /\ Done(i)
        /\ units[i].errs >= 2
        /\ Count("Error", units[i].out) = 1

\* C7: run_backend has left its loop only if every Sender was dropped and the
\* inbound channel was drained; as long as it is in the loop, a queued Action
\* can be dispatched, whatever the work units have met (engine errors, Errors
\* sent, sends that failed because the receiver is gone).
C7_LoopStopsOnlyOnClose ==
    /\ dispatcher = "stopped" => (tx_closed /\ action_q = << >>)
    /\ (dispatcher = "recv" /\ action_q # << >>) => ENABLED Dispatch

\* an Action was dispatched, and its unit ran, after an earlier unit had got an
\* engine error and sent an Error and after a send of an earlier unit failed
C7_Witness ==
    \E i \in UnitIds, j \in UnitIds :
        /\ i < j
        /\ units[i].errs > 0 /\ Has("Error", units[i].out) /\ units[i].lost
        /\ units[j].born.failed /\ units[j].born.lost
        /\ units[j].pc # "spawned"

\* C8: the step that dispatches a Cancel leaves the work units, the outbound
\* channel, the shared token and the keyring as they were.
C8_CancelChangesNothing ==
    [][ (RecvReady /\ Head(action_q).kind = "Cancel" /\ action_q' = Tail(action_q))
        => UNCHANGED << units, event_q, ctx_token, keyring >> ]_vars

\* a Login that was polling when a Cancel was dispatched has sent further
\* token requests since, written its token and sent AuthSuccess
C8_Witness ==
    \E c \in cancelled :
        /\ units[c[1]].polls > c[2]
        /\ Done(c[1])
        /\ Has("AuthSuccess", units[c[1]].out)
        /\ ctx_token = DevToken(c[1])

\* C9: the inbound channel never holds more than ChannelCapacity Actions, a
\* click on a full channel is still taken at once, and an Action whose
\* try_send found the channel full is neither queued nor ever given a unit.
C9_BoundedNoBlock ==
    /\ Len(action_q) <= ChannelCapacity
    /\ (Len(action_q) = ChannelCapacity /\ clicks < MaxBurst) => ENABLED CardClick(MaxBurst)
    /\ \A n \in 1..Len(action_q) : action_q[n].id \notin dropped
    /\ \A i \in UnitIds : units[i].aid \notin dropped

\* an Action was dropped and an Action sent after it has been dispatched
C9_Witness ==
    \E d \in dropped : \E i \in UnitIds : units[i].aid > d

\* C10 (as claimed): a step in which a try_send finds the channel full leaves
\* a warning in the window: the error label is set or a line is added to the
\* log view.
C10_DropWarned ==
    [][ dropped' # dropped =>
          ((auth_error' /\ ~auth_error) \/ log_lines' > log_lines) ]_vars

\* the kinds of the Events of source i buffered in q, in order
FromSrc(q, i) ==
    LET own == SelectSeq(q, LAMBDA e : e.src = i) IN
    [ n \in 1..Len(own) |-> own[n].kind ]

\* C11: while the Receiver exists, the Events a source has sent are exactly
\* those the UI has received from it followed by those still buffered, in
\* order (none lost, none twice), however long the buffer; a task that is
\* about to send can always do so; a send fails only once the Receiver is gone.
C11_EachEventOnce ==
    /\ ~rx_dropped =>
          \A i \in DOMAIN ui_seen : Out(i) = ui_seen[i] \o FromSrc(event_q, i)
    /\ \A i \in UnitIds : units[i].pc = "spawned" => ENABLED Start(i)
    /\ \A i \in UnitIds : units[i].lost => rx_dropped

\* six or more Events have accumulated, one unit's Events partly received and
\* partly still buffered
C11_Witness ==
    /\ ~rx_dropped
    /\ Len(event_q) >= 6
    /\ \E i \in UnitIds : Len(ui_seen[i]) >= 1 /\ Len(FromSrc(event_q, i)) >= 2

\* a Login unit that is past its keyring step
PastKeyring(i) == units[i].pc \in { "ctx_write", "auth_send", "done" }

\* the AuthSuccess Events still buffered carry the token of their sender
AuthCarriesToken ==
    \A n \in 1..Len(event_q) :
        event_q[n].kind = "AuthSuccess" =>
            /\ event_q[n].tok = units[event_q[n].src].tok
            /\ event_q[n].tok # NoToken

\* C12 (as claimed): a Login whose gh CLI probe succeeded has, once finished,
\* put the CLI token into the keyring and into the shared token, sent exactly
\* one AuthSuccess, carrying that token, and sent no device-code request and
\* no token request.
C12_CliShortCircuit ==
    /\ AuthCarriesToken
    /\ \A i \in UnitIds :
          (Login(i) /\ units[i].path = "cli" /\ Done(i)) =>
              /\ units[i].tok = CliToken
              /\ units[i].kr_after = CliToken
              /\ units[i].ctx_wrote = CliToken
              /\ Count("AuthSuccess", units[i].out) = 1
              /\ units[i].dev_reqs = 0
              /\ units[i].polls = 0

\* C13: in a Login unit a device-code request has been sent only if the gh
\* CLI probe returned and failed, and at most once; a token request has been
\* sent only if DeviceCode was sent before; a unit whose device-code request
\* failed has sent one Error and no token request.
C13_DeviceFlowOrder ==
    \A i \in UnitIds : Login(i) =>
        /\ units[i].dev_reqs <= 1
        /\ units[i].dev_reqs > 0 =>
              (units[i].pc \notin { "spawned", "gh_token" } /\ units[i].path # "cli")
        /\ units[i].polls > 0 => Has("DeviceCode", units[i].out)
        /\ (units[i].dev_reqs > 0 /\ units[i].pc # "dev_code"
                /\ ~Has("DeviceCode", units[i].out)) =>
              (Done(i) /\ Count("Error", units[i].out) = 1 /\ units[i].polls = 0)

\* one Login whose device-code request failed, and a later one that got its
\* device code and has sent a token request
C13_Witness ==
    \E i \in UnitIds, j \in UnitIds :
        /\ Login(i) /\ Done(i) /\ units[i].dev_reqs = 1
        /\ ~Has("DeviceCode", units[i].out) /\ Has("Error", units[i].out)
        /\ Login(j) /\ units[j].polls > 0

\* C14: without GITHUB_CLIENT_ID no Login unit sends a device-code or token
\* request, and one whose gh CLI probe failed ends with exactly one Error;
\* with or without the variable, a Login whose probe succeeded ends having
\* sent AuthSuccess.
C14_ClientIdOnlyForDeviceFlow ==
    \A i \in UnitIds : Login(i) =>
        /\ ~client_id => (units[i].dev_reqs = 0 /\ units[i].polls = 0)
        /\ (~client_id /\ units[i].pc \notin { "spawned", "gh_token" }
                /\ units[i].path # "cli") =>
              (Done(i) /\ Count("Error", units[i].out) = 1
                  /\ ~Has("AuthSuccess", units[i].out))
        /\ (units[i].path = "cli" /\ Done(i)) => Count("AuthSuccess", units[i].out) = 1

\* without the variable: a Login whose probe failed ended in Error, and a
\* later Login whose probe succeeded sent AuthSuccess
C14_Witness ==
    /\ ~client_id
    /\ \E i \in UnitIds, j \in UnitIds :
          /\ Login(i) /\ Done(i) /\ Has("Error", units[i].out)
          /\ Login(j) /\ Done(j) /\ units[j].path = "cli"
          /\ Has("AuthSuccess", units[j].out)

\* number of slow_down bodies among the first k - 1 responses
SlowsBefore(rs, k) == Cardinality({ n \in 1..(k - 1) : n <= Len(rs) /\ rs[n] = "slow_down" })

\* C15: a sleep precedes every token request, the first included, and the
\* sleep before the k-th request lasts the server's interval plus 1 plus 5
\* for every slow_down among the first k - 1 responses.
C15_SleepBeforePoll ==
    \A i \in UnitIds : Login(i) =>
        /\ Len(units[i].sleeps) = units[i].polls
        /\ Len(units[i].resps) \in { units[i].polls, units[i].polls - 1 }
        /\ \A k \in 1..Len(units[i].sleeps) :
              units[i].sleeps[k] = ServerInterval + 1 + 5 * SlowsBefore(units[i].resps, k)

\* the responses pending, pending, slow_down, success: the fourth sleep is
\* five seconds longer than the first three
C15_Witness ==
    \E i \in UnitIds :
        /\ units[i].resps = << "authorization_pending", "authorization_pending",
                               "slow_down", "success" >>
        /\ units[i].sleeps = << ServerInterval + 1, ServerInterval + 1,
                                ServerInterval + 1, ServerInterval + 1 + 5 >>

\* the unit's responses are waits followed by one success
WaitsThenSuccess(rs) ==
    /\ rs # << >>
    /\ rs[Len(rs)] = "success"
    /\ \A n \in 1..(Len(rs) - 1) : rs[n] \in { "authorization_pending", "slow_down" }

\* C16 (as claimed): a Login whose token responses were waits followed by a
\* success carrying T sends no token request after it and, once finished, has
\* put T into the keyring and into the shared token and has sent exactly one
\* AuthSuccess, carrying T.
C16_PollSuccess ==
    /\ AuthCarriesToken
    /\ \A i \in UnitIds :
          (Login(i) /\ WaitsThenSuccess(units[i].resps)) =>
              /\ units[i].tok = DevToken(i)
              /\ units[i].polls = Len(units[i].resps)
              /\ units[i].pc \in { "kr_set", "ctx_write", "auth_send", "done" }
              /\ Count("AuthSuccess", units[i].out) = (IF Done(i) THEN 1 ELSE 0)
              /\ PastKeyring(i) => units[i].kr_after = DevToken(i)
              /\ Done(i) => units[i].ctx_wrote = DevToken(i)

\* the bodies that end the poll loop with an error
TerminalCodes == { "expired_token", "access_denied", "other_code" }
LastResp(i) == units[i].resps[Len(units[i].resps)]

\* C17: a Login whose last token response carried expired_token,
\* access_denied or another error code has stopped: it sent exactly one
\* Error and no AuthSuccess, sent no token request after that response, and
\* wrote neither the keyring nor the shared token.
C17_TerminalCodeStops ==
    \A i \in UnitIds :
        (Login(i) /\ units[i].resps # << >> /\ LastResp(i) \in TerminalCodes) =>
            /\ Done(i)
            /\ units[i].polls = Len(units[i].resps)
            /\ Count("Error", units[i].out) = 1
            /\ ~Has("AuthSuccess", units[i].out)
            /\ units[i].path = "none"
            /\ units[i].kr_after = NoToken
            /\ units[i].ctx_wrote = NoToken
            /\ ctx_token # DevToken(i) /\ keyring # DevToken(i)

\* a loop that waited twice and was then ended by an unknown error code
C17_Witness ==
    \E i \in UnitIds :
        /\ units[i].resps = << "authorization_pending", "slow_down", "other_code" >>
        /\ Done(i)
        /\ ctx_token = NoToken

\* what a Login has sent when poll_access_token starts
SentBeforePolling == << "Log", "Log", "Log", "Log", "Log", "DeviceCode", "Log" >>

\* C18: as long as a Login is in the poll loop, whatever the number of
\* authorization_pending and slow_down responses it got, what it has sent ends
\* with DeviceCode and the "polling" Log line: no Error and no other Event
\* was added by a waiting response.
C18_WaitingIsSilent ==
    \A i \in UnitIds :
        (Login(i) /\ units[i].pc \in { "sleep", "poll" }) =>
            /\ units[i].out = SentBeforePolling
            /\ \A n \in 1..Len(units[i].resps) : units[i].resps[n] \in WaitCodes

\* after a pending and a slow_down the UI has received everything the Login
\* sent, and that ends with the "polling" Log line
C18_Witness ==
    \E i \in UnitIds :
        /\ units[i].resps = << "authorization_pending", "slow_down" >>
        /\ units[i].pc = "poll"
        /\ ui_seen[i] = SentBeforePolling
        /\ FromSrc(event_q, i) = << >>

\* C19: the poll loop is left only on a success, an error code other than
\* authorization_pending and slow_down, or a transport or parse error; after
\* a waiting response the Login sleeps and then sends the next token request,
\* also when more than ExpiresIn seconds have passed since the device code.
C19_NoClientExpiry ==
    \A i \in UnitIds : (Login(i) /\ Has("DeviceCode", units[i].out)) =>
        /\ units[i].pc \in { "sleep", "poll" } \/
              (units[i].resps # << >> /\
               LastResp(i) \in { "success", "transport" } \cup TerminalCodes)
        /\ (units[i].resps # << >> /\ LastResp(i) \in WaitCodes) =>
              units[i].pc \in { "sleep", "poll" }
        /\ (units[i].pc = "sleep" /\ units[i].polls < MaxLongPolls) =>
              ENABLED SleepStep(i, MaxLongPolls)

\* only authorization_pending so far, more than ExpiresIn seconds slept, and
\* one more token request sent
C19_Witness ==
    \E i \in UnitIds :
        /\ units[i].resps = << "authorization_pending", "authorization_pending",
                               "authorization_pending" >>
        /\ Elapsed([ sleeps |-> SubSeq(units[i].sleeps, 1, 3) ]) > ExpiresIn
        /\ units[i].pc = "poll"
        /\ units[i].polls = 4

\* C20: the shared token changes only in the step in which a Login that got a
\* token, from the gh CLI or from the device flow, writes that token to it.
C20_TokenWrittenByLoginOnly ==
    [][ ctx_token' # ctx_token =>
          \E i \in UnitIds :
              /\ Login(i)
              /\ units[i].path \in { "cli", "dev" }
              /\ units[i].pc = "ctx_write" /\ units'[i].pc = "auth_send"
              /\ ctx_token' = units[i].tok ]_vars

\* the shared token holds a device-flow token while a fetch unit has finished
\* on a token it read from the keyring
C20_Witness ==
    \E i \in UnitIds, j \in UnitIds :
        /\ Login(i) /\ Done(i) /\ units[i].path = "dev" /\ ctx_token = DevToken(i)
        /\ ~Login(j) /\ Done(j) /\ units[j].kr_reads > 0 /\ units[j].tok # NoToken

\* the Logins that obtained a token
Winners == { i \in UnitIds : Login(i) /\ units[i].got > 0 }
AllLoginsDone == \A i \in UnitIds : Login(i) => Done(i)

\* C21 (as claimed): once every Login has finished, the shared token is the
\* token that was obtained last.
C21_LatestTokenWins ==
    (AllLoginsDone /\ Winners # { }) =>
        \E i \in Winners :
            /\ \A j \in Winners : units[j].got <= units[i].got
            /\ ctx_token = units[i].tok

\* C22: a fetch unit reads the keyring only after its CLI token command
\* failed; when the CLI succeeds the keyring is not read, even if it holds a
\* token, and the CLI token is the one the unit's requests carry.
C22_KeyringOnlyAfterCliFailure ==
    \A i \in UnitIds :
        ~Login(i) =>
            /\ units[i].kr_reads > 0 => units[i].cli = "err"
            /\ units[i].cli = "ok" => units[i].kr_reads = 0 /\ units[i].tok = CliToken
            /\ units[i].pc = "kr_get" => units[i].cli = "err"

C22_Witness ==
    \E i \in UnitIds :
        /\ ~Login(i) /\ Done(i) /\ units[i].cli = "ok" /\ units[i].rest > 0
        /\ keyring # NoToken /\ units[i].tok = CliToken /\ units[i].kr_reads = 0

\* positions of the Events of one kind in a sequence
Positions(k, q) == { n \in 1..Len(q) : q[n] = k }

\* C23: in a SelectRepo unit every ReadmeLoaded follows a FileTree, the README
\* read is requested only once FileTree has been sent, and no ReadmeLoaded is
\* sent when the root listing failed.
C23_ReadmeAfterTree ==
    \A i \in UnitIds :
        units[i].kind = "SelectRepo" =>
            /\ \A n \in Positions("ReadmeLoaded", units[i].out) :
                   \E m \in Positions("FileTree", units[i].out) : m < n
            /\ (units[i].pc = "readme" \/ units[i].reads # << >>) =>
                   Has("FileTree", units[i].out)
            /\ units[i].tree = "err" =>
                   /\ ~Has("ReadmeLoaded", units[i].out)
                   /\ units[i].reads = << >>

C23_Witness ==
    \E i \in UnitIds :
        /\ units[i].kind = "SelectRepo" /\ Done(i) /\ units[i].tree = "ok"
        /\ Has("ReadmeLoaded", units[i].out)

\* the nodes a README read may target
Candidates(files) ==
    { k \in 1..Len(files) : IsReadmeName(files[k].name) /\ files[k].url }

\* C24: after a successful root listing the unit requests the content of the
\* first readme-named node that has a download URL, once, and of no node when
\* there is none.
C24_OneReadmeRead ==
    \A i \in UnitIds :
        (units[i].kind = "SelectRepo" /\ units[i].tree = "ok") =>
            LET c == Candidates(units[i].files) IN
            /\ c = { } => units[i].reads = << >>
            /\ c # { } =>
                  /\ Len(units[i].reads) = 1
                  /\ units[i].reads[1] \in c
                  /\ \A k \in c : units[i].reads[1] <= k
            /\ Done(i) => units[i].rest = 2 + Len(units[i].reads)

\* a readme-named node without URL is passed over for a later one with URL
C24_Witness ==
    \E i \in UnitIds :
        /\ units[i].kind = "SelectRepo" /\ Done(i) /\ units[i].tree = "ok"
        /\ Len(units[i].files) = 2
        /\ IsReadmeName(units[i].files[1].name) /\ ~units[i].files[1].url
        /\ IsReadmeName(units[i].files[2].name) /\ units[i].files[2].url
        /\ units[i].reads = << 2 >>

\* C25: the IssueList payload holds the entries of the engine's result that
\* have no pull_request value, all of them and no other, in the engine's order.
C25_IssueListFiltersPulls ==
    \A i \in UnitIds :
        (units[i].kind = "FetchIssues" /\ Has("IssueList", units[i].out)) =>
            LET res == units[i].issues
                lst == units[i].listed
                keep == { n \in 1..Len(res) : res[n].pull_request = "None" }
            IN
            /\ \A k \in 1..Len(lst) : lst[k].number \in keep /\ lst[k] = res[lst[k].number]
            /\ \A n \in keep : \E k \in 1..Len(lst) : lst[k].number = n
            /\ \A k \in 1..Len(lst), m \in 1..Len(lst) :
                   k < m => lst[k].number < lst[m].number

\* a pull request stands between two issues and only the issues are listed
C25_Witness ==
    \E i \in UnitIds :
        /\ units[i].kind = "FetchIssues" /\ Has("IssueList", units[i].out)
        /\ Len(units[i].issues) = 2 /\ Len(units[i].listed) = 1
        /\ units[i].issues[1].pull_request = "Some"
        /\ units[i].listed[1].number = 2

\* an identifier that does not split on '/' into exactly two parts
BadName(i) == units[i].name # NoName /\ PartsCount(units[i].name) # 2

\* C26: a SelectRepo unit whose identifier is not owner/name never calls the
\* engine, and has sent an Error by the time it ends.
C26_SelectBadNameFails ==
    \A i \in UnitIds :
        (units[i].kind = "SelectRepo" /\ BadName(i)) =>
            /\ units[i].rest = 0
            /\ units[i].pc \notin { "tree", "readme", "info" }
            /\ Done(i) => Has("Error", units[i].out)

\* the identifier o/r/x was rejected after a token had been found
C26_Witness ==
    \E i \in UnitIds :
        /\ units[i].kind = "SelectRepo" /\ Done(i)
        /\ PartsCount(units[i].name) = 3 /\ units[i].tok # NoToken
        /\ units[i].rest = 0 /\ Count("Error", units[i].out) = 1

\* C30 (as claimed): a unit of any other arm that carries a repository
\* identifier, given one that is not owner/name, sends no REST request and
\* has sent an Error by the time it ends.
C30_BadNameFails ==
    \A i \in UnitIds :
        (units[i].kind \in RepoKinds /\ BadName(i) /\ units[i].tok # NoToken) =>
            /\ units[i].rest = 0
            /\ Done(i) => Has("Error", units[i].out)

\* C27 (as claimed): the error the engine makes of a non-2xx response carries
\* the HTTP status and the response body, whatever the method, and the unit
\* that met it sends no result.
C27_HttpErrorCarriesStatusAndBody ==
    \A i \in UnitIds :
        \A n \in 1..Len(units[i].http_errs) :
            /\ units[i].http_errs[n].status
            /\ units[i].http_errs[n].body
            /\ units[i].kind \in RestKinds =>
                   ~Has(ResultKind(units[i].kind), units[i].out)

\* the UI is back on the login screen after an abort, and the next Event comes
\* from the Login whose device code it had shown
AbandonedEventNext ==
    /\ ui_state = "Login"
    /\ event_q # << >>
    /\ Head(event_q).kind \in { "AuthSuccess", "DeviceCode" }
    /\ Login(Head(event_q).src)
    /\ Has("DeviceCode", ui_seen[Head(event_q).src])

\* C28 (as claimed): receiving an AuthSuccess or a DeviceCode of an aborted
\* login attempt leaves the screen state as it is.
C28_AbandonedEventsIgnored ==
    [][ (AbandonedEventNext /\ event_q' = Tail(event_q)) => ui_state' = ui_state ]_vars

\* a step of the fetch unit i
FetchStep(i) ==
    \/ Start(i)
    \/ GhReposDone(i)
    \/ FetchCliDone(i)
    \/ FetchKeyringDone(i)
    \/ RestDone(i)
    \/ TreeDone(i)
    \/ ReadmeDone(i)
    \/ InfoDone(i)

\* the Events that answer an Action
Results == SuccessKinds \cup { "Error" }
Answered(q) == \E n \in 1..Len(q) : q[n] \in Results

\* C29: a fetch unit that has not ended can take its next step whatever the
\* units dispatched before it are doing, so that the result of a later Action
\* can reach the UI before the result of an earlier one.
C29_NoOrderAcrossUnits ==
    \A j \in UnitIds : (~Login(j) /\ ~Done(j)) => ENABLED FetchStep(j)

\* B's result has been received while A's, dispatched before B, is sent and
\* still waits in the channel
C29_Witness ==
    \E i \in UnitIds, j \in UnitIds :
        /\ i < j /\ units[i].aid < units[j].aid
        /\ ~Login(i) /\ ~Login(j)
        /\ Answered(ui_seen[j])
        /\ ~Answered(ui_seen[i])
        /\ Answered(FromSrc(event_q, i))

\* every Login that obtained a token stored it in the keyring
AllStored == \A i \in Winners : units[i].kr_after = units[i].tok

\* C31 (as claimed): once two successful Logins have both finished, each
\* having stored its token, the keyring and the shared context hold the same
\* token.
C31_KeyringMatchesContext ==
    (AllLoginsDone /\ Cardinality(Winners) >= 2 /\ AllStored) => keyring = ctx_token

\* C32 (as claimed): once the screen is Main, no step moves it to Login,
\* RequestingCode or DeviceAuth.
C32_MainIsStable ==
    [][ ui_state = "Main" => ui_state' = "Main" ]_vars

\* the UI waits for a login attempt and the next Event is that attempt's Error
LoginErrorNext ==
    /\ ui_state \in { "RequestingCode", "DeviceAuth" }
    /\ event_q # << >>
    /\ Head(event_q).kind = "Error"
    /\ Login(Head(event_q).src)

\* C33 (as claimed): processing the Error of a login attempt puts the screen
\* back to Login, from RequestingCode and from DeviceAuth alike.
C33_LoginErrorReturnsToLogin ==
    [][ (LoginErrorNext /\ event_q' = Tail(event_q)) => ui_state' = "Login" ]_vars

\* a FetchRepos is queued, or running, or its RepoList or Error is on its way
\* to the UI
FetchReposInFlight ==
    \/ \E n \in 1..Len(action_q) : action_q[n].kind = "FetchRepos"
    \/ \E i \in UnitIds : units[i].kind = "FetchRepos" /\ ~Done(i)
    \/ \E n \in 1..Len(event_q) :
          /\ event_q[n].kind \in { "RepoList", "Error" }
          /\ event_q[n].src \in UnitIds
          /\ units[event_q[n].src].kind = "FetchRepos"

\* C34 (as claimed): while the loading flag of the repository browser is set,
\* the FetchRepos that set it is in flight, so that its RepoList or Error will
\* clear the flag, also when try_send found the inbound channel full.
C34_LoadingIsAnswered == loading => FetchReposInFlight

\* C35 (as claimed): a work unit that has sent an Error sends no result Event
\* after it.
C35_NoSuccessAfterError ==
    \A i \in UnitIds :
        \A n \in 1..Len(units[i].out), m \in 1..Len(units[i].out) :
            (n < m /\ units[i].out[n] = "Error") => units[i].out[m] \notin SuccessKinds

\* C36: a Login that is about to send AuthSuccess, or has sent it, wrote its
\* token to the shared context before, and from then on the shared context
\* holds a token.
C36_TokenBeforeAuthSuccess ==
    \A i \in UnitIds :
        (Login(i) /\ (units[i].pc = "auth_send" \/ Has("AuthSuccess", units[i].out))) =>
            /\ units[i].ctx_wrote = units[i].tok
            /\ units[i].tok # NoToken
            /\ ctx_token # NoToken

\* the device flow ended with AuthSuccess, still to be received by the UI
C36_Witness ==
    \E i \in UnitIds :
        /\ Login(i) /\ units[i].path = "dev" /\ Done(i)
        /\ Has("AuthSuccess", FromSrc(event_q, i))
        /\ ctx_token = DevToken(i)

\* C37: the shared context holds no token exactly as long as no Login has
\* written one; after the first write it holds a token for good, whatever
\* Actions follow.
C37_TokenNeverCleared ==
    ctx_token = NoToken <=> \A i \in UnitIds : units[i].ctx_wrote = NoToken

\* the token of a Login is still held after a later fetch unit has failed
C37_Witness ==
    \E i \in UnitIds, j \in UnitIds :
        /\ i < j /\ Login(i) /\ units[i].ctx_wrote # NoToken
        /\ ~Login(j) /\ Done(j) /\ units[j].tok = NoToken /\ units[j].kr_reads > 0
        /\ ctx_token = units[i].tok
====
